---- MODULE Spec2Model ----
(***************************************************************************)
(* Model of the two image-rotation demo programs                           *)
(*   src/src/imageRotationNPP_real.cpp   (loads a PGM file, falls back to  *)
(*                                        a generated checkerboard)        *)
(*   src/src/imageRotationNPP_simple.cpp (always generates a checkerboard) *)
(*                                                                         *)
(* Bytes are the integers 0..255.  An image is a record                    *)
(*   [width, height, pitch, data]                                          *)
(* where width, height and pitch are the 32-bit values the image class     *)
(* stores, written as the int with that bit pattern (the programs pass     *)
(* ints in and cast the sizes back to int), and data is its pixel buffer.  *)
(* A file is a record [exists, content]: whether it can be opened, and the *)
(* bytes in it.                                                            *)
(*                                                                         *)
(* A byte buffer (pixel buffer, file content) is held by the statement     *)
(* that wrote it:                                                          *)
(*   Bytes(q)            the bytes q, given one by one                     *)
(*   CheckerFill(w, h)   what the two checkerboard loops store             *)
(*   BackendFill(n, v)   n bytes written by the rotation backend           *)
(*   Encoded(img)        what saveImagePGM writes for img                  *)
(* and BufLen(b) / BufAt(b, k) give the number of bytes written and byte   *)
(* number k (1-based: offset k - 1).  Bytes of an allocation past          *)
(* BufLen were never written and have no determinate value.                *)
(***************************************************************************)
EXTENDS Integers, Sequences, FiniteSets, TLC

(***************************************************************************)
(* Characters used by the PGM reader and writer.                           *)
(***************************************************************************)
NL    == 10
SP    == 32
HASH  == 35
PLUS  == 43
MINUS == 45
ZERO  == 48
CharP == 80

IsSpace(c) == c \in {SP, 9, 10, 11, 12, 13}
IsDigit(c) == c \in ZERO..(ZERO + 9)

MagicP5 == <<CharP, ZERO + 5>>
MaxValLine == <<ZERO + 2, ZERO + 5, ZERO + 5>>

(***************************************************************************)
(* 32-bit integer conversions.                                             *)
(***************************************************************************)
IntMax == 2147483647
IntMin == -IntMax - 1

(***************************************************************************)
(* The value of an object that is read before anything was stored in it.   *)
(***************************************************************************)
Indeterminate == {-3, 0, 2}

(***************************************************************************)
(* operator<< of an unsigned integer: its decimal digits.                  *)
(***************************************************************************)
RECURSIVE ToDecimal(_)
ToDecimal(n) ==
    IF n < 10 THEN <<ZERO + n>>
    ELSE Append(ToDecimal(n \div 10), ZERO + (n % 10))

(***************************************************************************)
(* The checkerboard test pattern.                                          *)
(***************************************************************************)
checkSize == 32
White == 255
Gray == 64

\* a pattern that leaves the row out of the parity (stripes)
CheckerSampleStripes(x, y) ==
    IF (x \div checkSize) % 2 = 0 THEN White ELSE Gray

\* bool isWhite = ((x / checkSize) + (y / checkSize)) % 2 == 0;
\* ... = isWhite ? 255 : 64
CheckerSample(x, y) ==
    IF ((x \div checkSize) + (y \div checkSize)) % 2 = 0 THEN White ELSE Gray

(***************************************************************************)
(* Byte buffers, images and files.                                         *)
(***************************************************************************)
Bytes(q) == [kind |-> "bytes", bytes |-> q]
CheckerFill(width, height) == [kind |-> "checker", width |-> width, height |-> height]
BackendFill(n, v) == [kind |-> "backend", size |-> n, value |-> v]
Encoded(img) == [kind |-> "pgm", image |-> img]

\* a default-constructed npp::ImageCPU_8u_C1
EmptyImage == [width |-> 0, height |-> 0, pitch |-> 0, data |-> Bytes(<<>>)]

\* the header saveImagePGM writes: "P5\n", "<width> <height>\n", "255\n"
PGMHeader(img) ==
    MagicP5 \o <<NL>>
      \o ToDecimal(img.width) \o <<SP>> \o ToDecimal(img.height) \o <<NL>>
      \o MaxValLine \o <<NL>>

\* rows taken width bytes apart, the padding of a row not skipped
SavedPixelOffsetNoPitch(img, i) ==
    (i \div img.width) * img.width + (i % img.width)

\* offset in the pixel buffer of output pixel number i of saveImagePGM:
\* for each y, file.write(data() + y * pitch(), width())
SavedPixelOffset(img, i) ==
    (i \div img.width) * img.pitch + (i % img.width)

RECURSIVE BufLen(_)
BufLen(b) ==
    CASE b.kind = "bytes"   -> Len(b.bytes)
      [] b.kind = "checker" -> b.width * b.height
      [] b.kind = "backend" -> b.size
      [] b.kind = "pgm"     -> Len(PGMHeader(b.image)) + b.image.width * b.image.height

RECURSIVE BufAt(_, _)
BufAt(b, k) ==
    CASE b.kind = "bytes"   -> b.bytes[k]
      [] b.kind = "checker" ->
           \* offset k - 1 = y * pitch + x was stored by iteration (x, y)
           CheckerSample((k - 1) % b.width, (k - 1) \div b.width)
      [] b.kind = "backend" -> b.value
      [] b.kind = "pgm"     ->
           LET hdr == PGMHeader(b.image)
           IN IF k <= Len(hdr) THEN hdr[k]
              ELSE BufAt(b.image.data,
                         SavedPixelOffset(b.image, k - Len(hdr) - 1) + 1)

\* bytes a..b of a buffer, one by one
Slice(s, a, b) ==
    IF b < a THEN <<>>
    ELSE SubSeq([i \in 1..b |-> IF i < a THEN 0 ELSE BufAt(s, i)], a, b)

\* a file of the file system: absent (it cannot be opened), or its bytes
NoFile == [exists |-> FALSE, content |-> Bytes(<<>>)]
File(b) == [exists |-> TRUE, content |-> b]

\* the sample at (x, y), when it has been written
HasPixel(img, x, y) == y * img.pitch + x + 1 <= BufLen(img.data)
Pixel(img, x, y) == BufAt(img.data, y * img.pitch + x + 1)

(***************************************************************************)
(* saveImagePGM: the bytes written to an output file that opened.          *)
(***************************************************************************)
SaveImagePGM(img) == Encoded(img)

(***************************************************************************)
(* std::ifstream over the bytes of a file: the read position and the       *)
(* eofbit and failbit of the stream.                                       *)
(***************************************************************************)
OpenStream == [pos |-> 1, eof |-> FALSE, fail |-> FALSE]

\* index of the first NL at or after position p, or Len(s) + 1 when none
RECURSIVE FindNL(_, _)
FindNL(s, p) ==
    IF p > BufLen(s) THEN BufLen(s) + 1
    ELSE IF BufAt(s, p) = NL THEN p
    ELSE FindNL(s, p + 1)

\* std::getline(file, line): [line, st, ok].  On a stream that is not good
\* nothing is extracted and line keeps its old value.  Otherwise line is
\* erased and filled up to the next NL, which is consumed and not stored;
\* reaching the end of the file sets eofbit, extracting nothing sets failbit.
GetLine(s, st, line) ==
    IF st.eof \/ st.fail
    THEN [line |-> line, st |-> [st EXCEPT !.fail = TRUE], ok |-> FALSE]
    ELSE LET k == FindNL(s, st.pos)
             text == Slice(s, st.pos, k - 1)
         IN IF k <= BufLen(s)
            THEN [line |-> text,
                  st   |-> [st EXCEPT !.pos = k + 1],
                  ok   |-> TRUE]
            ELSE [line |-> text,
                  st   |-> [pos |-> BufLen(s) + 1, eof |-> TRUE,
                            fail |-> (text = <<>>)],
                  ok   |-> (text # <<>>)]

\* while (std::getline(file, line) && line[0] == '#') {}
\* (line[0] of an empty string is the terminating '\0')
RECURSIVE SkipComments(_, _, _)
SkipComments(s, st, line) ==
    LET g == GetLine(s, st, line)
    IN IF g.ok /\ g.line # <<>> /\ g.line[1] = HASH
       THEN SkipComments(s, g.st, g.line)
       ELSE g

(***************************************************************************)
(* Formatted extraction of an int (operator>>, std::stoi).                 *)
(***************************************************************************)
RECURSIVE SkipSpace(_, _)
SkipSpace(s, p) ==
    IF p <= Len(s) /\ IsSpace(s[p]) THEN SkipSpace(s, p + 1) ELSE p

RECURSIVE DigitsEnd(_, _)
DigitsEnd(s, p) ==
    IF p <= Len(s) /\ IsDigit(s[p]) THEN DigitsEnd(s, p + 1) ELSE p

RECURSIVE DigitsValue(_, _, _, _)
DigitsValue(s, p, q, acc) ==
    IF p >= q THEN acc
    ELSE DigitsValue(s, p + 1, q, 10 * acc + (s[p] - ZERO))

\* Scan an optionally signed decimal integer at position p of s, after
\* leading white space: [found, value, next, atEnd].
ScanInt(s, p) ==
    LET a == SkipSpace(s, p)
        neg == a <= Len(s) /\ s[a] = MINUS
        b == IF a <= Len(s) /\ s[a] \in {MINUS, PLUS} THEN a + 1 ELSE a
        e == DigitsEnd(s, b)
        mag == DigitsValue(s, b, e, 0)
    IN [found |-> e > b,
        value |-> IF neg THEN -mag ELSE mag,
        next  |-> IF e > b THEN e ELSE a,
        atEnd |-> a > Len(s)]

\* iss >> v on a stream with fail flag f at position p, v holding old:
\* [vals, next, fail].  vals is the set of values v can hold afterwards.
\* A failed stream, or one with only white space left, stores nothing; a
\* token that is no number stores 0; a number out of range stores the
\* nearest int; both set failbit.
ExtractInt(s, p, f, old) ==
    LET r == ScanInt(s, p)
    IN IF f THEN [vals |-> old, next |-> p, fail |-> TRUE]
       ELSE IF r.atEnd THEN [vals |-> old, next |-> r.next, fail |-> TRUE]
       ELSE IF ~r.found THEN [vals |-> {0}, next |-> r.next, fail |-> TRUE]
       ELSE IF r.value > IntMax THEN [vals |-> {IntMax}, next |-> r.next, fail |-> TRUE]
       ELSE IF r.value < IntMin THEN [vals |-> {IntMin}, next |-> r.next, fail |-> TRUE]
       ELSE [vals |-> {r.value}, next |-> r.next, fail |-> FALSE]

\* std::istringstream iss(line); int width, height; iss >> width >> height;
\* the set of <<width, height>> the two uninitialised ints can hold after.
ParseDimensions(line) ==
    LET w == ExtractInt(line, 1, FALSE, Indeterminate)
        h == ExtractInt(line, w.next, w.fail, Indeterminate)
    IN w.vals \X h.vals

\* std::stoi(line): "ok" with a value, or the exception it throws
Stoi(line) ==
    LET r == ScanInt(line, 1)
    IN IF ~r.found THEN [ok |-> FALSE, value |-> 0]
       ELSE IF r.value > IntMax \/ r.value < IntMin THEN [ok |-> FALSE, value |-> 0]
       ELSE [ok |-> TRUE, value |-> r.value]

(***************************************************************************)
(* npp::ImageCPU_8u_C1(width, height): the host allocation, made by the    *)
(* image library.  For positive sizes it yields a buffer of width * height *)
(* bytes with pitch = width.  For other sizes (0, or a negative int seen   *)
(* as a huge unsigned) the library either still hands out an image or      *)
(* throws (npp::Exception from its size assertion, std::bad_alloc).        *)
(***************************************************************************)
HostAllocOutcomes(width, height) ==
    IF width > 0 /\ height > 0 THEN {"ok"} ELSE {"ok", "throw_npp", "throw_std"}

\* a read of the pixels that ends at a newline, as a text read would
FileReadToNewline(s, st, count) ==
    IF st.eof \/ st.fail \/ count <= 0 THEN <<>>
    ELSE LET last == IF st.pos + count - 1 > BufLen(s) THEN BufLen(s)
                     ELSE st.pos + count - 1
             nl == FindNL(s, st.pos)
         IN Slice(s, st.pos, IF nl <= last THEN nl - 1 ELSE last)

\* file.read(data, count): the bytes that reach the buffer
FileRead(s, st, count) ==
    IF st.eof \/ st.fail \/ count <= 0 THEN <<>>
    ELSE Slice(s, st.pos, IF st.pos + count - 1 > BufLen(s) THEN BufLen(s)
                          ELSE st.pos + count - 1)

(***************************************************************************)
(* loadImagePGM(fileName, rImage): the set of possible results             *)
(*   [ret, image, nread, msg]                                              *)
(* ret is "true" or "false" (the returned bool) or "throw_std" /           *)
(* "throw_npp" (an exception leaves the function); image is the caller's   *)
(* rImage afterwards; nread is the number of pixel bytes read.             *)
(***************************************************************************)
LoadResult(ret, image, nread, msg) ==
    [ret |-> ret, image |-> image, nread |-> nread, msg |-> msg]

LoadPixels(file, st, rImage, width, height) ==
    LET px == FileRead(file, st, width * height)
    IN { IF a = "ok"
         THEN LoadResult("true",
                         [width |-> width, height |-> height,
                          pitch |-> width, data |-> Bytes(px)],
                         Len(px), "Loading image")
         ELSE LoadResult(a, rImage, 0, "Loading image")
         : a \in HostAllocOutcomes(width, height) }

\* a check of the first two characters only
BadMagicPrefix(line) == ~(Len(line) >= 2 /\ SubSeq(line, 1, 2) = MagicP5)

\* if (line != "P5")
BadMagic(line) == line # MagicP5

\* loadImagePGM after the file opened
LoadOpened(file, rImage) ==
    LET magic == GetLine(file, OpenStream, <<>>)
    IN IF BadMagic(magic.line)
       THEN {LoadResult("false", rImage, 0, "Unsupported PGM format")}
       ELSE LET dimLine == SkipComments(file, magic.st, magic.line)
                maxLine == GetLine(file, dimLine.st, dimLine.line)
            IN IF ~Stoi(maxLine.line).ok
               THEN {LoadResult("throw_std", rImage, 0, "")}
               ELSE UNION { LoadPixels(file, maxLine.st, rImage, d[1], d[2])
                            : d \in ParseDimensions(dimLine.line) }

\* a loader that throws when the file does not open
LoadImagePGMOpenThrows(f, rImage) ==
    IF ~f.exists
    THEN {LoadResult("throw_npp", rImage, 0, "Could not open file")}
    ELSE LoadOpened(f.content, rImage)

LoadImagePGM(f, rImage) ==
    IF ~f.exists
    THEN {LoadResult("false", rImage, 0, "Could not open file")}
    ELSE LoadOpened(f.content, rImage)

(***************************************************************************)
(* The generated test pattern.                                             *)
(***************************************************************************)
\* rImage = npp::ImageCPU_8u_C1(width, height), then the two nested loops
\* storing CheckerSample(x, y) into data()[y * pitch + x]
FillChecker(width, height) ==
    [width |-> width, height |-> height, pitch |-> width,
     data |-> CheckerFill(width, height)]

\* createTestImage(rImage, width, height) of the simple program
createTestImage(width, height) == FillChecker(width, height)

\* the size of the pattern in both programs, and the inline fallback of
\* the real program
TestSize == 512
FallbackImage == FillChecker(TestSize, TestSize)

(***************************************************************************)
(* State.                                                                  *)
(***************************************************************************)
VARIABLES
    program,      \* "real" or "simple": which main is running
    pc,           \* position in main
    inputFile,    \* data\Lena_gray.pgm
    outputFile,   \* data\Lena_rotated.pgm / data\test_rotated.pgm
    capable,      \* result of printfNPPinfo: "unknown", "yes", "no"
    oHostSrc,     \* host source image
    oDeviceSrc,   \* device source image
    oDeviceDst,   \* device destination image
    oHostDst,     \* host destination image
    devSrc,       \* device buffer of oDeviceSrc: "none", "held", "released"
    devDst,       \* device buffer of oDeviceDst: "none", "held", "released"
    oBoundingBox, \* destination rectangle <<x, y, width, height>>
    rotReq,       \* the arguments of the nppiRotate_8u_C1R call
    loadRet,      \* how loadImagePGM ended, "none" before the call
    thrownAt,     \* the step that threw, "none" when nothing was thrown
    steps,        \* pipeline steps executed so far
    errLog,       \* messages written to std::cerr
    exitCode,     \* argument of exit(), -1 while running
    codec,        \* state of the codec harness (SpecCodec)
    gen           \* state of the generator harness (SpecGen)

mainVars == <<program, pc, inputFile, outputFile, capable, oHostSrc,
              oDeviceSrc, oDeviceDst, oHostDst, devSrc, devDst, oBoundingBox, rotReq,
              loadRet, thrownAt, steps, errLog, exitCode>>
vars == <<program, pc, inputFile, outputFile, capable, oHostSrc,
          oDeviceSrc, oDeviceDst, oHostDst, devSrc, devDst, oBoundingBox, rotReq,
          loadRet, thrownAt, steps, errLog, exitCode, codec, gen>>

NoRequest ==
    [issued |-> FALSE, src |-> EmptyImage,
     srcSize |-> <<0, 0>>, srcROI |-> <<0, 0, 0, 0>>,
     dstROI |-> <<0, 0, 0, 0>>, angle |-> 0, center |-> <<0, 0>>]

CodecIdle ==
    [phase |-> "idle", src |-> EmptyImage, file |-> NoFile,
     dst |-> EmptyImage, prev |-> EmptyImage, ret |-> "none", nread |-> 0]

GenIdle == [phase |-> "idle", width |-> 0, height |-> 0, image |-> EmptyImage]

MainIdle ==
    /\ program = "none" /\ pc = "idle"
    /\ inputFile = NoFile /\ outputFile = NoFile
    /\ capable = "unknown"
    /\ oHostSrc = EmptyImage /\ oDeviceSrc = EmptyImage
    /\ oDeviceDst = EmptyImage /\ oHostDst = EmptyImage
    /\ devSrc = "none" /\ devDst = "none"
    /\ oBoundingBox = <<0, 0, 0, 0>>
    /\ rotReq = NoRequest
    /\ loadRet = "none" /\ thrownAt = "none"
    /\ steps = <<>> /\ errLog = <<>> /\ exitCode = -1

(***************************************************************************)
(* External collaborators of main.                                         *)
(***************************************************************************)
\* npp::ImageNPP_8u_C1 construction (device allocation, and the copy for
\* the upload): it can always fail, and does for a size that is not
\* positive as the int the allocator takes.
DeviceAllocOutcomes(width, height) ==
    IF width > 0 /\ height > 0
    THEN {"ok", "throw_npp"} ELSE {"throw_npp"}

\* sample values the rotation backend leaves in the destination; what it
\* computes is not part of these programs
BackendSamples == {0, 200}

\* the scaled size rounded to nearest instead of truncated
ScaleToIntRounded(n) == {(3 * n + 1) \div 2}

\* static_cast<int>(n * 1.5): n * 1.5 is exact in a double and the cast
\* truncates toward zero; out of the range of int the result is undefined
ScaleToInt(n) ==
    LET t == IF n >= 0 THEN (3 * n) \div 2 ELSE -((3 * (-n)) \div 2)
    IN IF t >= IntMin /\ t <= IntMax THEN {t} ELSE Indeterminate

(***************************************************************************)
(* main: one action per statement group.                                   *)
(***************************************************************************)
\* An exception leaves the try block: the automatic objects constructed so
\* far are destroyed (the device images release their buffers) and the
\* matching handler is entered.
Throw(kind, at) ==
    /\ pc' = IF kind = "throw_npp" THEN "catch_npp" ELSE "catch_any"
    /\ thrownAt' = at
    /\ devSrc' = IF devSrc = "held" THEN "released" ELSE devSrc
    /\ devDst' = IF devDst = "held" THEN "released" ELSE devDst
    /\ oHostSrc' = EmptyImage /\ oDeviceSrc' = EmptyImage
    /\ oDeviceDst' = EmptyImage /\ oHostDst' = EmptyImage

\* exit(code): the process ends; automatic objects are not destroyed
Exit(code) ==
    /\ pc' = "exited"
    /\ exitCode' = code

\* printf("%s Starting..."); findCudaDevice(argc, argv);
Start ==
    /\ pc = "start"
    /\ pc' = "query"
    /\ UNCHANGED <<program, inputFile, outputFile, capable, oHostSrc,
                   oDeviceSrc, oDeviceDst, oHostDst, devSrc, devDst, oBoundingBox, rotReq,
                   loadRet, thrownAt, steps, errLog, exitCode, codec, gen>>

\* if (printfNPPinfo(argc, argv) == false) exit(EXIT_SUCCESS);
QueryCapability ==
    /\ pc = "query"
    /\ \E b \in {"yes", "no"} :
         /\ capable' = b
         /\ IF b = "no"
            THEN Exit(0)
            ELSE /\ pc' = IF program = "real" THEN "load" ELSE "generate"
                 /\ UNCHANGED exitCode
    /\ UNCHANGED <<program, inputFile, outputFile, oHostSrc,
                   oDeviceSrc, oDeviceDst, oHostDst, devSrc, devDst, oBoundingBox, rotReq,
                   loadRet, thrownAt, steps, errLog, codec, gen>>

\* simple: npp::ImageCPU_8u_C1 oHostSrc; createTestImage(oHostSrc, 512, 512);
Generate ==
    /\ pc = "generate"
    /\ oHostSrc' = createTestImage(TestSize, TestSize)
    /\ steps' = Append(steps, "generate")
    /\ pc' = "upload"
    /\ UNCHANGED <<program, inputFile, outputFile, capable,
                   oDeviceSrc, oDeviceDst, oHostDst, devSrc, devDst, oBoundingBox, rotReq,
                   loadRet, thrownAt, errLog, exitCode, codec, gen>>

\* real: npp::ImageCPU_8u_C1 oHostSrc;
\*       if (!loadImagePGM(inputFile, oHostSrc)) { ... fallback ... }
LoadOrFallback ==
    /\ pc = "load"
    /\ steps' = Append(steps, "load")
    /\ \E r \in LoadImagePGM(inputFile, EmptyImage) :
         /\ loadRet' = r.ret
         /\ CASE r.ret = "true" ->
                   /\ oHostSrc' = r.image
                   /\ pc' = "upload"
                   /\ UNCHANGED <<errLog, thrownAt, devSrc, devDst,
                                  oDeviceSrc, oDeviceDst, oHostDst>>
              [] r.ret = "false" ->
                   /\ errLog' = errLog \o <<r.msg,
                          "Failed to load image. Creating test pattern instead.">>
                   /\ oHostSrc' = FallbackImage
                   /\ pc' = "upload"
                   /\ UNCHANGED <<thrownAt, devSrc, devDst,
                                  oDeviceSrc, oDeviceDst, oHostDst>>
              [] OTHER ->
                   /\ Throw(r.ret, "load")
                   /\ UNCHANGED errLog
    /\ UNCHANGED <<program, inputFile, outputFile, capable, oBoundingBox,
                   rotReq, exitCode, codec, gen>>

\* npp::ImageNPP_8u_C1 oDeviceSrc(oHostSrc);
Upload ==
    /\ pc = "upload"
    /\ steps' = Append(steps, "upload")
    /\ \E a \in DeviceAllocOutcomes(oHostSrc.width, oHostSrc.height) :
         IF a = "ok"
         THEN /\ oDeviceSrc' = oHostSrc
              /\ devSrc' = "held"
              /\ pc' = "allocdst"
              /\ UNCHANGED <<oHostSrc, oDeviceDst, oHostDst, devDst, thrownAt>>
         ELSE Throw(a, "upload")
    /\ UNCHANGED <<program, inputFile, outputFile, capable, oBoundingBox,
                   rotReq, loadRet, errLog, exitCode, codec, gen>>

\* NppiSize oSrcSize = {(int)oDeviceSrc.width(), (int)oDeviceSrc.height()};
\* int newWidth = static_cast<int>(oSrcSize.width * 1.5); (and newHeight)
\* NppiRect oBoundingBox = {0, 0, newWidth, newHeight};
\* npp::ImageNPP_8u_C1 oDeviceDst(oBoundingBox.width, oBoundingBox.height);
AllocDst ==
    /\ pc = "allocdst"
    /\ steps' = Append(steps, "allocdst")
    /\ \E newWidth \in ScaleToInt(oDeviceSrc.width),
          newHeight \in ScaleToInt(oDeviceSrc.height) :
         /\ oBoundingBox' = <<0, 0, newWidth, newHeight>>
         /\ \E a \in DeviceAllocOutcomes(newWidth, newHeight) :
              IF a = "ok"
              THEN /\ oDeviceDst' = [width |-> newWidth,
                                     height |-> newHeight,
                                     pitch |-> newWidth,
                                     data |-> Bytes(<<>>)]
                   /\ devDst' = "held"
                   /\ pc' = "rotate"
                   /\ UNCHANGED <<oHostSrc, oDeviceSrc, oHostDst, devSrc, thrownAt>>
              ELSE Throw(a, "allocdst")
    /\ UNCHANGED <<program, inputFile, outputFile, capable, rotReq,
                   loadRet, errLog, exitCode, codec, gen>>

\* NppiRect oSrcROI = {0, 0, oSrcSize.width, oSrcSize.height};
\* NppiPoint oRotationCenter = {oSrcSize.width / 2, oSrcSize.height / 2};
\* NPP_CHECK_NPP(nppiRotate_8u_C1R(oDeviceSrc.data(), oSrcSize, pitch,
\*     oSrcROI, oDeviceDst.data(), pitch, oBoundingBox, angle, cx, cy, NN));
Rotate ==
    /\ pc = "rotate"
    /\ steps' = Append(steps, "rotate")
    /\ rotReq' =
         LET w == oDeviceSrc.width
             h == oDeviceSrc.height
         IN [issued |-> TRUE, src |-> oDeviceSrc,
             srcSize |-> <<w, h>>, srcROI |-> <<0, 0, w, h>>,
             dstROI |-> oBoundingBox, angle |-> 45,
             center |-> <<w \div 2, h \div 2>>]
    /\ \/ \E v \in BackendSamples :
            /\ oDeviceDst' =
                 [oDeviceDst EXCEPT !.data =
                    BackendFill(oDeviceDst.pitch * oDeviceDst.height, v)]
            /\ pc' = "download"
            /\ UNCHANGED <<oHostSrc, oDeviceSrc, oHostDst, devSrc, devDst, thrownAt>>
       \/ Throw("throw_npp", "rotate")
    /\ UNCHANGED <<program, inputFile, outputFile, capable, oBoundingBox,
                   loadRet, errLog, exitCode, codec, gen>>

\* npp::ImageCPU_8u_C1 oHostDst(oDeviceDst.size());
\* oDeviceDst.copyTo(oHostDst.data(), oHostDst.pitch());
Download ==
    /\ pc = "download"
    /\ steps' = Append(steps, "download")
    /\ \/ /\ oHostDst' = [width |-> oDeviceDst.width,
                          height |-> oDeviceDst.height,
                          pitch |-> oDeviceDst.width,
                          data |-> oDeviceDst.data]
          /\ pc' = "save"
          /\ UNCHANGED <<oHostSrc, oDeviceSrc, oDeviceDst, devSrc, devDst, thrownAt>>
       \/ Throw("throw_npp", "download")
    /\ UNCHANGED <<program, inputFile, outputFile, capable, oBoundingBox,
                   rotReq, loadRet, errLog, exitCode, codec, gen>>

\* saveImagePGM(outputFile, oHostDst): the output file opens and is
\* written, or does not open and npp::Exception is thrown
Save ==
    /\ pc = "save"
    /\ steps' = Append(steps, "save")
    /\ \/ /\ outputFile' = File(SaveImagePGM(oHostDst))
          /\ pc' = "finish"
          /\ UNCHANGED <<oHostSrc, oDeviceSrc, oDeviceDst, oHostDst,
                         devSrc, devDst, thrownAt>>
       \/ /\ Throw("throw_npp", "save")
          /\ UNCHANGED outputFile
    /\ UNCHANGED <<program, inputFile, capable, oBoundingBox,
                   rotReq, loadRet, errLog, exitCode, codec, gen>>

\* the closing messages (and the system() call of the real program), then
\* exit(EXIT_SUCCESS) inside the try block
Finish ==
    /\ pc = "finish"
    /\ Exit(0)
    /\ UNCHANGED <<program, inputFile, outputFile, capable, oHostSrc,
                   oDeviceSrc, oDeviceDst, oHostDst, devSrc, devDst,
                   oBoundingBox, rotReq, loadRet, thrownAt, steps, errLog,
                   codec, gen>>

\* catch (npp::Exception &rException) { ...; exit(EXIT_FAILURE); }
CatchNpp ==
    /\ pc = "catch_npp"
    /\ errLog' = Append(errLog, "Program error! The following exception occurred")
    /\ Exit(1)
    /\ UNCHANGED <<program, inputFile, outputFile, capable, oHostSrc,
                   oDeviceSrc, oDeviceDst, oHostDst, devSrc, devDst,
                   oBoundingBox, rotReq, loadRet, thrownAt, steps,
                   codec, gen>>

\* a handler for unknown exceptions that ends the run as a success
CatchAnyExitsZero ==
    /\ pc = "catch_any"
    /\ errLog' = Append(errLog, "Program error! An unknown type of exception occurred")
    /\ Exit(0)
    /\ UNCHANGED <<program, inputFile, outputFile, capable, oHostSrc,
                   oDeviceSrc, oDeviceDst, oHostDst, devSrc, devDst,
                   oBoundingBox, rotReq, loadRet, thrownAt, steps,
                   codec, gen>>

\* catch (...) { ...; exit(EXIT_FAILURE); }
CatchAny ==
    /\ pc = "catch_any"
    /\ errLog' = Append(errLog, "Program error! An unknown type of exception occurred")
    /\ Exit(1)
    /\ UNCHANGED <<program, inputFile, outputFile, capable, oHostSrc,
                   oDeviceSrc, oDeviceDst, oHostDst, devSrc, devDst,
                   oBoundingBox, rotReq, loadRet, thrownAt, steps,
                   codec, gen>>

(***************************************************************************)
(* Input files.  A file is put together from a magic line, comment lines,  *)
(* a dimension line, a max-value line and pixel bytes, each well-formed or *)
(* malformed.                                                              *)
(***************************************************************************)
MagicLines ==
    {
      <<80, 53, 10>>,                          \* P5\n
      <<80, 50, 10>>,                          \* P2\n
      <<80, 53, 13, 10>>,                      \* P5\r\n
      <<80, 53, 32, 10>>,                      \* P5 \n
      <<112, 53, 10>>,                         \* p5\n
      <<80, 53>>,                              \* P5
      <<>>                                     \* (empty)
    }

CommentLines ==
    {
      <<>>,                                    \* (empty)
      <<35, 10>>,                              \* #\n
      <<35, 120, 10, 35, 32, 57, 32, 57, 10>>  \* #x\n# 9 9\n
    }

DimensionLines ==
    {
      <<50, 32, 50, 10>>,                      \* 2 2\n
      <<51, 32, 49, 10>>,                      \* 3 1\n
      <<32, 49, 32, 32, 50, 32, 10>>,          \*  1  2 \n
      <<49, 50, 32, 49, 10>>,                  \* 12 1\n
      <<50, 10>>,                              \* 2\n
      <<10>>,                                  \* \n
      <<120, 32, 50, 10>>,                     \* x 2\n
      <<50, 32, 120, 10>>,                     \* 2 x\n
      <<48, 32, 50, 10>>,                      \* 0 2\n
      <<50, 32, 48, 10>>,                      \* 2 0\n
      <<45, 49, 32, 50, 10>>,                  \* -1 2\n
      <<45, 49, 32, 45, 49, 10>>,              \* -1 -1\n
      <<50, 32, 50>>                           \* 2 2
    }

MaxValueLines ==
    {
      <<50, 53, 53, 10>>,                      \* 255\n
      <<49, 53, 10>>,                          \* 15\n
      <<120, 10>>,                             \* x\n
      <<10>>,                                  \* \n
      <<50, 53, 53>>,                          \* 255
      <<>>                                     \* (empty)
    }

\* sample values of the pixel bytes of the files and images examined:
\* a newline, a '#' and a plain value
PixelValues == {NL, HASH, 255}

MaxPixels == 4

RECURSIVE SeqsUpTo(_, _)
SeqsUpTo(S, n) ==
    IF n = 0 THEN {<<>>}
    ELSE LET shorter == SeqsUpTo(S, n - 1)
         IN shorter \cup {Append(q, v) : q \in {r \in shorter : Len(r) = n - 1}, v \in S}

RECURSIVE SeqsOfLen(_, _)
SeqsOfLen(S, n) ==
    IF n = 0 THEN {<<>>}
    ELSE {Append(q, v) : q \in SeqsOfLen(S, n - 1), v \in S}

RawFiles ==
    { File(Bytes(m \o c \o d \o x \o px)) :
        m \in MagicLines, c \in CommentLines, d \in DimensionLines,
        x \in MaxValueLines, px \in SeqsUpTo({NL, 255}, MaxPixels) }

\* the input files of the runs of main
MainFiles ==
    {NoFile, File(Bytes(<<>>)),
     File(Bytes(<<80, 50, 10, 50, 32, 50, 10, 50, 53, 53, 10, 1, 2, 3, 4>>))}
    \cup
    { File(Bytes(MagicP5 \o <<NL>> \o c \o d \o x \o px)) :
        c \in {<<>>, <<HASH, NL>>},
        d \in DimensionLines,
        x \in {MaxValLine \o <<NL>>, <<120, NL>>},
        px \in {<<>>, <<NL, 255>>, <<NL, 255, HASH, 7>>} }

(***************************************************************************)
(* Spec: one run of either program.                                        *)
(***************************************************************************)
Init ==
    /\ program \in {"real", "simple"}
    /\ pc = "start"
    /\ inputFile \in (IF program = "real" THEN MainFiles ELSE {NoFile})
    /\ outputFile = NoFile
    /\ capable = "unknown"
    /\ oHostSrc = EmptyImage /\ oDeviceSrc = EmptyImage
    /\ oDeviceDst = EmptyImage /\ oHostDst = EmptyImage
    /\ devSrc = "none" /\ devDst = "none"
    /\ oBoundingBox = <<0, 0, 0, 0>>
    /\ rotReq = NoRequest
    /\ loadRet = "none" /\ thrownAt = "none"
    /\ steps = <<>> /\ errLog = <<>> /\ exitCode = -1
    /\ codec = CodecIdle /\ gen = GenIdle

Next ==
    \/ Start
    \/ QueryCapability
    \/ Generate
    \/ LoadOrFallback
    \/ Upload
    \/ AllocDst
    \/ Rotate
    \/ Download
    \/ Save
    \/ Finish
    \/ CatchNpp
    \/ CatchAny

Spec == Init /\ [][Next]_vars

(***************************************************************************)
(* SpecCodec: saveImagePGM and loadImagePGM applied to images and files.   *)
(***************************************************************************)
MaxBuf == 6

\* images whose buffer is fully written, with every pitch >= width
ImageShapes ==
    { t \in (1..MaxBuf) \X (1..MaxBuf) \X (1..MaxBuf) :
        t[3] >= t[1] /\ t[3] * t[2] <= MaxBuf }

SmallImages ==
    UNION { { [width |-> t[1], height |-> t[2], pitch |-> t[3], data |-> Bytes(d)] :
                d \in SeqsOfLen(PixelValues, t[3] * t[2]) } :
            t \in ImageShapes }

\* images with sizes of two and three decimal digits
WideImage(w, h, p) ==
    [width |-> w, height |-> h, pitch |-> p,
     data |-> Bytes(SubSeq([k \in 1..(p * h) |->
                        IF k % 3 = 0 THEN NL ELSE IF k % 3 = 1 THEN HASH ELSE k % 256],
                     1, p * h))]

WideImages ==
    {WideImage(12, 1, 12), WideImage(1, 10, 1), WideImage(100, 2, 100),
     WideImage(10, 11, 13), WideImage(255, 1, 256)}

CodecImages == SmallImages \cup WideImages

\* an image the caller may already hold when it calls loadImagePGM
PriorImage == [width |-> 1, height |-> 1, pitch |-> 1, data |-> Bytes(<<7>>)]

InitCodec ==
    /\ MainIdle
    /\ gen = GenIdle
    /\ \E d \in {EmptyImage, PriorImage} :
         \/ \E img \in CodecImages :
              codec = [CodecIdle EXCEPT !.phase = "image", !.src = img, !.dst = d]
         \/ \E f \in RawFiles \cup {NoFile} :
              codec = [CodecIdle EXCEPT !.phase = "file", !.file = f, !.dst = d]

\* saveImagePGM(fileName, src) with a file that opens
CodecSave ==
    /\ codec.phase = "image"
    /\ codec' = [codec EXCEPT !.phase = "saved",
                              !.file = File(SaveImagePGM(codec.src))]
    /\ UNCHANGED mainVars
    /\ UNCHANGED gen

\* loadImagePGM(fileName, dst)
CodecLoad ==
    /\ codec.phase \in {"file", "saved"}
    /\ \E r \in LoadImagePGM(codec.file, codec.dst) :
         codec' = [codec EXCEPT
                     !.phase = IF codec.phase = "saved" THEN "reloaded" ELSE "loaded",
                     !.prev = codec.dst,
                     !.dst = r.image,
                     !.ret = r.ret,
                     !.nread = r.nread]
    /\ UNCHANGED mainVars
    /\ UNCHANGED gen

NextCodec == CodecSave \/ CodecLoad

SpecCodec == InitCodec /\ [][NextCodec]_vars

(***************************************************************************)
(* SpecGen: the checkerboard generator.                                    *)
(***************************************************************************)
MaxGenDim == 66

InitGen ==
    /\ MainIdle
    /\ codec = CodecIdle
    /\ \/ \E w \in 1..MaxGenDim, h \in 1..MaxGenDim :
            gen = [GenIdle EXCEPT !.phase = "call", !.width = w, !.height = h]
       \/ gen = [GenIdle EXCEPT !.phase = "call", !.width = TestSize, !.height = TestSize]
       \/ gen = [GenIdle EXCEPT !.phase = "inline", !.width = TestSize, !.height = TestSize]

\* createTestImage(rImage, width, height)
GenCreate ==
    /\ gen.phase = "call"
    /\ gen' = [gen EXCEPT !.phase = "done",
                          !.image = createTestImage(gen.width, gen.height)]
    /\ UNCHANGED mainVars
    /\ UNCHANGED codec

\* the fallback block of the real program's main
GenFallback ==
    /\ gen.phase = "inline"
    /\ gen' = [gen EXCEPT !.phase = "done", !.image = FallbackImage]
    /\ UNCHANGED mainVars
    /\ UNCHANGED codec

NextGen == GenCreate \/ GenFallback

SpecGen == InitGen /\ [][NextGen]_vars

(***************************************************************************)
(* Vocabulary of the properties: the PGM container as the specification    *)
(* describes it, read off the bytes of a file.                             *)
(***************************************************************************)
\* position of the first NL at or after p, Len(b) + 1 when there is none
NextNL(b, p) ==
    LET nls == {k \in p..Len(b) : b[k] = NL}
    IN IF nls = {} THEN Len(b) + 1
       ELSE CHOOSE k \in nls : \A j \in nls : k <= j

LineAt(b, p) == SubSeq(b, p, NextNL(b, p) - 1)

FirstLineIsMagic(b) == LineAt(b, 1) = <<80, 53>>

\* start of the first line after the magic line that is not a comment
RECURSIVE AfterComments(_, _)
AfterComments(b, p) ==
    IF p <= Len(b) /\ b[p] = HASH
    THEN AfterComments(b, NextNL(b, p) + 1)
    ELSE p

DimLineOf(b) == LineAt(b, AfterComments(b, NextNL(b, 1) + 1))
MaxLineStart(b) == NextNL(b, AfterComments(b, NextNL(b, 1) + 1)) + 1
MaxLineOf(b) == LineAt(b, MaxLineStart(b))
PixelStart(b) == NextNL(b, MaxLineStart(b)) + 1

\* the line holds two decimal integers, both positive
HoldsTwoPositive(line) ==
    LET a == ScanInt(line, 1)
        c == ScanInt(line, a.next)
    IN a.found /\ a.value > 0 /\ c.found /\ c.value > 0

DeclaredWidth(b) == ScanInt(DimLineOf(b), 1).value
DeclaredHeight(b) == ScanInt(DimLineOf(b), ScanInt(DimLineOf(b), 1).next).value

\* the ways a file fails to load: it cannot be opened, or its container is
\* malformed (magic token, dimensions, max-value) or truncated
\* the bytes of a file, one by one
BytesOf(f) == Slice(f.content, 1, BufLen(f.content))

BadMagicFile(f) == f.exists /\ ~FirstLineIsMagic(BytesOf(f))
BadDimensionsFile(f) ==
    f.exists /\ FirstLineIsMagic(BytesOf(f)) /\ ~HoldsTwoPositive(DimLineOf(BytesOf(f)))
BadMaxValueFile(f) ==
    /\ f.exists /\ FirstLineIsMagic(BytesOf(f)) /\ HoldsTwoPositive(DimLineOf(BytesOf(f)))
    /\ ~ScanInt(MaxLineOf(BytesOf(f)), 1).found
TruncatedFile(f) ==
    /\ f.exists /\ FirstLineIsMagic(BytesOf(f)) /\ HoldsTwoPositive(DimLineOf(BytesOf(f)))
    /\ ScanInt(MaxLineOf(BytesOf(f)), 1).found
    /\ Len(BytesOf(f)) - PixelStart(BytesOf(f)) + 1
         < DeclaredWidth(BytesOf(f)) * DeclaredHeight(BytesOf(f))
LoadFails(f) ==
    \/ ~f.exists
    \/ BadMagicFile(f) \/ BadDimensionsFile(f)
    \/ BadMaxValueFile(f) \/ TruncatedFile(f)

\* the sample the checkerboard has at (x, y)
TileSample(x, y) == IF ((x \div 32) + (y \div 32)) % 2 = 0 THEN 255 ELSE 64

IsCheckerboard(img, w, h) ==
    /\ img.width = w /\ img.height = h
    /\ BufLen(img.data) = img.pitch * h
    /\ \A y \in 0..(h - 1) : \A x \in 0..(w - 1) :
         HasPixel(img, x, y) /\ Pixel(img, x, y) = TileSample(x, y)

\* the header "P5", "<w> <h>", "255" of an encoded image
HeaderFor(w, h) ==
    <<80, 53, 10>> \o ToDecimal(w) \o <<32>> \o ToDecimal(h) \o <<10, 50, 53, 53, 10>>

(***************************************************************************)
(* Properties of the codec (SpecCodec).                                    *)
(***************************************************************************)
\* C1: Round trip.  For every image with positive width and height and
\* stride equal to width, loading the bytes saveImagePGM produced succeeds
\* and yields the same width, the same height and the same pixel value at
\* every (x, y), whatever the pixel bytes are (newline and '#' included).
C1_RoundTrip ==
    (codec.phase = "reloaded" /\ codec.src.pitch = codec.src.width) =>
        /\ codec.ret = "true"
        /\ codec.dst.width = codec.src.width
        /\ codec.dst.height = codec.src.height
        /\ \A y \in 0..(codec.src.height - 1) : \A x \in 0..(codec.src.width - 1) :
             /\ HasPixel(codec.dst, x, y)
             /\ Pixel(codec.dst, x, y) = Pixel(codec.src, x, y)

C1_Witness ==
    /\ codec.phase = "reloaded"
    /\ codec.src = [width |-> 2, height |-> 2, pitch |-> 2,
                    data |-> Bytes(<<NL, HASH, 255, NL>>)]
    /\ codec.dst = codec.src

\* C2: Malformed header rejection.  When the first line of the stream is
\* not exactly "P5", loadImagePGM fails, the caller's image is left as it
\* was before the call and no pixel bytes are read.
C2_BadMagicRejected ==
    (codec.phase = "loaded" /\ BadMagicFile(codec.file)) =>
        /\ codec.ret = "false"
        /\ codec.dst = codec.prev
        /\ codec.nread = 0

C2_Witness ==
    /\ codec.phase = "loaded"
    /\ codec.file.exists
    /\ LineAt(BytesOf(codec.file), 1) = <<80, 53, 13>>
    /\ HoldsTwoPositive(DimLineOf(BytesOf(codec.file)))
    /\ codec.prev = PriorImage
    /\ codec.ret = "false"

\* C3: Dimension validation.  With a valid magic line, when the first
\* non-comment line after it does not hold two positive decimal integers,
\* loadImagePGM fails; it never returns success with a width or height
\* that is not positive.
C3_DimensionsValidated ==
    (codec.phase = "loaded" /\ codec.file.exists
       /\ FirstLineIsMagic(BytesOf(codec.file))) =>
        /\ ~HoldsTwoPositive(DimLineOf(BytesOf(codec.file))) => codec.ret # "true"
        /\ codec.ret = "true" => codec.dst.width > 0 /\ codec.dst.height > 0

\* C10: Encode layout with stride.  For every image with stride >= width
\* saveImagePGM emits the header "P5", "<width> <height>", "255" and then
\* exactly width * height bytes, output byte y * width + x being
\* buffer[y * stride + x]; padding bytes are never emitted.
C10_EncodeLayout ==
    codec.phase \in {"saved", "reloaded"} =>
        LET img == codec.src
            out == BytesOf(codec.file)
            hdr == HeaderFor(img.width, img.height)
        IN /\ codec.file.exists
           /\ Len(out) = Len(hdr) + img.width * img.height
           /\ SubSeq(out, 1, Len(hdr)) = hdr
           /\ \A y \in 0..(img.height - 1) : \A x \in 0..(img.width - 1) :
                out[Len(hdr) + y * img.width + x + 1]
                  = img.data.bytes[y * img.pitch + x + 1]

C10_Witness ==
    /\ codec.phase = "saved"
    /\ codec.src = [width |-> 2, height |-> 2, pitch |-> 3,
                    data |-> Bytes(<<NL, HASH, 255, 255, NL, HASH>>)]
    /\ BytesOf(codec.file) = HeaderFor(2, 2) \o <<NL, HASH, 255, NL>>

(***************************************************************************)
(* Properties of the generator (SpecGen).                                  *)
(***************************************************************************)
\* C8: Checkerboard correctness.  For every positive width and height the
\* generated image has, at every (x, y), the sample 255 when
\* (x div 32 + y div 32) is even and 64 otherwise, and no other sample;
\* for 512x512 the samples at (0,0), (32,0), (64,0), (0,32) are
\* 255, 64, 255, 64.
C8_Checkerboard ==
    gen.phase = "done" =>
        /\ IsCheckerboard(gen.image, gen.width, gen.height)
        /\ (gen.width = 512 /\ gen.height = 512) =>
             /\ Pixel(gen.image, 0, 0) = 255
             /\ Pixel(gen.image, 32, 0) = 64
             /\ Pixel(gen.image, 64, 0) = 255
             /\ Pixel(gen.image, 0, 32) = 64

C8_Witness ==
    /\ gen.phase = "done"
    /\ gen.width = 65 /\ gen.height = 33
    /\ Pixel(gen.image, 64, 32) = 64
    /\ Pixel(gen.image, 64, 31) = 255

(***************************************************************************)
(* Properties of the runs of main (Spec).                                  *)
(***************************************************************************)
FallbackMessage == "Failed to load image. Creating test pattern instead."

InErrLog(m) == \E i \in 1..Len(errLog) : errLog[i] = m

BackendOrOutputFailed ==
    thrownAt \in {"upload", "allocdst", "rotate", "download", "save"}

\* C4: Load-failure fallback covers every load error.  Whenever loading
\* the input fails (the file cannot be opened, bad magic token,
\* unparseable dimensions, unparseable max-value line, truncated
\* container), main substitutes the 512x512 checkerboard and goes on with
\* the pipeline; no load-time error reaches a top-level handler.
C4_EveryLoadErrorFallsBack ==
    (program = "real" /\ loadRet # "none" /\ LoadFails(inputFile)) =>
        /\ loadRet = "false"
        /\ thrownAt # "load"
        /\ InErrLog(FallbackMessage)
        /\ pc = "upload" => oHostSrc = FallbackImage

\* C5: Missing-file fallback.  When the input file does not exist, the
\* device is capable, no backend step fails and the output file can be
\* written, the run ends with exit code 0 and the source image handed to
\* the rotation backend is exactly the 512x512 checkerboard.
C5_MissingFileFallback ==
    (pc = "exited" /\ program = "real" /\ ~inputFile.exists
       /\ capable = "yes" /\ ~BackendOrOutputFailed) =>
        /\ exitCode = 0
        /\ outputFile.exists
        /\ rotReq.issued
        /\ IsCheckerboard(rotReq.src, 512, 512)

C5_Witness ==
    /\ pc = "exited" /\ program = "real" /\ ~inputFile.exists
    /\ capable = "yes" /\ ~BackendOrOutputFailed
    /\ exitCode = 0
    /\ InErrLog("Could not open file")
    /\ rotReq.srcSize = <<512, 512>>

\* C6: Exit-code mapping.  A run of either program ends with exit code 0
\* exactly when the output was saved or the capability query reported
\* false, and with exit code 1 on any error; when the query reports false
\* no pipeline step ran before the exit; and every error termination is
\* preceded by an error message.
C6_ExitCodes ==
    pc = "exited" =>
        /\ exitCode \in {0, 1}
        /\ exitCode = 0 <=> (outputFile.exists \/ capable = "no")
        /\ thrownAt # "none" => exitCode = 1
        /\ capable = "no" =>
             /\ steps = <<>> /\ loadRet = "none" /\ ~rotReq.issued
             /\ devSrc = "none" /\ devDst = "none" /\ ~outputFile.exists
        /\ exitCode = 1 =>
             /\ errLog # <<>>
             /\ errLog[Len(errLog)] \in
                  {"Program error! The following exception occurred",
                   "Program error! An unknown type of exception occurred"}

C6_Witness ==
    /\ pc = "exited" /\ exitCode = 1
    /\ program = "real" /\ thrownAt = "load" /\ loadRet = "throw_std"
    /\ errLog = <<"Program error! An unknown type of exception occurred">>

\* C7: Resource release on every exit path.  On every path by which a run
\* ends after a device buffer was allocated (normal completion through
\* exit(EXIT_SUCCESS) inside the try block included), each allocated
\* device buffer has been released by its owner before the process ends.
C7_BuffersReleasedAtExit ==
    pc = "exited" => devSrc # "held" /\ devDst # "held"

\* C9: Canvas sizing.  For a source image of width w and height h the
\* destination rectangle passed to the rotation backend and the size of
\* the saved output image are both floor(1.5 w) by floor(1.5 h) at offset
\* (0, 0), odd w or h included; 512x512 gives 768x768.
C9_CanvasSizing ==
    rotReq.issued =>
        LET w == rotReq.src.width
            h == rotReq.src.height
            W == w + (w \div 2)
            H == h + (h \div 2)
        IN /\ w > 0 /\ h > 0
           /\ rotReq.dstROI = <<0, 0, W, H>>
           /\ (w = 512 /\ h = 512) => rotReq.dstROI = <<0, 0, 768, 768>>
           /\ outputFile.exists =>
                /\ Slice(outputFile.content, 1, Len(HeaderFor(W, H))) = HeaderFor(W, H)
                /\ BufLen(outputFile.content) = Len(HeaderFor(W, H)) + W * H

C9_Witness ==
    /\ rotReq.issued /\ outputFile.exists
    /\ rotReq.srcSize = <<3, 1>>
    /\ rotReq.dstROI = <<0, 0, 4, 1>>
    /\ BufLen(outputFile.content) = Len(HeaderFor(4, 1)) + 4

====
